---- MODULE Spec2Model ----
(***************************************************************************)
(* Event tracker block (src/blocks/footer/footer.js, lines 66-829): the     *)
(* past-event filter, the column type inference, the sorter and the         *)
(* pagination/sort state machine of the rendered table.                     *)
(*                                                                          *)
(* A JavaScript string is a sequence of one-character strings, so that the  *)
(* regular expressions, parseFloat, toLowerCase and localeCompare of the    *)
(* source are computed character by character.  A JavaScript number is a    *)
(* record [nan, v]: v counts hundredths, which is exact for every cell of   *)
(* the modelled universes (at most two fractional digits).  A point in      *)
(* time is an integer number of ticks of 6 seconds (a hundredth of a day    *)
(* is 144 ticks, a minute is 10 ticks), local time without DST changes.     *)
(***************************************************************************)
EXTENDS Integers, Sequences, FiniteSets, TLC

VARIABLES
    engine,        \* the JavaScript engine's Array.prototype.sort algorithm
    \* ---- sorter under test (sortData applied to drawn inputs) ----
    sIn,           \* the record sequence given to sortData
    sOut,          \* [direction -> result of sortData(sIn, SortCol, direction)]
    sRe,           \* [direction -> result of sorting sOut[direction] again]
    \* ---- filter under test (filterPastEvents applied to drawn inputs) ----
    fIn,           \* the record sequence given to filterPastEvents
    fClock,        \* the readings of "new Date()", one per record
    fOut,          \* result of filterPastEvents
    \* ---- the block: decorate, createTable and the event handlers ----
    pc,            \* position of decorate: "start", "fetching", "done"
    config,        \* the block configuration read by decorate
    block,         \* the children of the block element, in order
    originalData,  \* the array createTable was given (kept by the sort handlers)
    allColumns,    \* Object.keys(data[0])
    displayColumns, \* the columns of the rendered headers
    currentPage,   \* paginationState.currentPage
    itemsPerPage,  \* paginationState.itemsPerPage
    currentData,   \* paginationState.currentData
    sortColumn,    \* paginationState.sortColumn
    sortDirection, \* paginationState.sortDirection
    tbody,         \* the rendered rows: the id of the record of each <tr>
    indicators,    \* the sort indicator of each header
    pageNav,       \* the buttons and label of .page-navigation, and the
                   \* totalPages captured by the click handlers
    lastEvent,     \* history: the handler that ran last and its argument (the
                   \* header clicked, the option chosen, the page it started on)
    fetches,       \* history: the number of calls of fetch
    payload,       \* history: what fetchData resolved to
    inference,     \* history: the values the last sortData of the block
                   \* sampled, and the type it inferred from them
    \* ---- rendering under test (createTable's headers, renderTableBody) ----
    rIn,           \* the configured column list and the records
    rOut           \* the rendered headers and the text of the cells

sortVars == <<sIn, sOut, sRe>>
filterVars == <<fIn, fClock, fOut>>
tableVars == <<originalData, allColumns, displayColumns>>
stateVars == <<currentPage, itemsPerPage, currentData, sortColumn, sortDirection>>
domVars == <<tbody, indicators, pageNav>>
fetchVars == <<fetches, payload>>
blockVars == <<pc, config, block, fetchVars, tableVars, stateVars, domVars,
               inference, lastEvent>>
renderVars == <<rIn, rOut>>

vars == <<engine, sortVars, filterVars, renderVars, blockVars>>

----------------------------------------------------------------------------
(* Bounds *)

MaxSortLen == 4      \* longest record sequence given to the sorter under test
MaxFilterLen == 2    \* longest record sequence given to the filter under test
MaxRows == 26        \* largest number of records in a fetched array
MaxVariant == 1      \* fetched arrays differ in where their row pattern starts
MaxRenderRows == 2   \* most records given to the rendering under test

----------------------------------------------------------------------------
(* JavaScript strings and numbers *)

Digits == {"0", "1", "2", "3", "4", "5", "6", "7", "8", "9"}

DigitVal(c) ==
    CASE c = "0" -> 0 [] c = "1" -> 1 [] c = "2" -> 2 [] c = "3" -> 3
      [] c = "4" -> 4 [] c = "5" -> 5 [] c = "6" -> 6 [] c = "7" -> 7
      [] c = "8" -> 8 [] c = "9" -> 9

\* The value "undefined" of a property that a record does not have.
Undefined == <<"undefined">>

\* The number NaN and a finite number of v hundredths.
NaN == [nan |-> TRUE, v |-> 0]
Num(v) == [nan |-> FALSE, v |-> v]

\* a - b on numbers (NaN is contagious).
Minus(a, b) == IF a.nan \/ b.nan THEN NaN ELSE Num(a.v - b.v)

\* -a
Negate(a) == IF a.nan THEN NaN ELSE Num(0 - a.v)

\* Number of digits of s from position i on.
RECURSIVE DigitRun(_, _)
DigitRun(s, i) ==
    IF i <= Len(s) /\ s[i] \in Digits THEN 1 + DigitRun(s, i + 1) ELSE 0

\* The decimal value of the n digits of s from position i on.
RECURSIVE DigitsValue(_, _, _)
DigitsValue(s, i, n) ==
    IF n = 0 THEN 0
    ELSE 10 * DigitsValue(s, i, n - 1) + DigitVal(s[i + n - 1])

\* Number of leading / trailing blanks of s.
RECURSIVE LeadingBlanks(_, _)
LeadingBlanks(s, i) ==
    IF i <= Len(s) /\ s[i] = " " THEN 1 + LeadingBlanks(s, i + 1) ELSE 0

RECURSIVE TrailingBlanks(_, _)
TrailingBlanks(s, i) ==
    IF i >= 1 /\ s[i] = " " THEN 1 + TrailingBlanks(s, i - 1) ELSE 0

\* String.prototype.trim
Trim(s) ==
    LET lead == LeadingBlanks(s, 1)
    IN IF lead = Len(s) THEN <<>>
       ELSE SubSeq(s, lead + 1, Len(s) - TrailingBlanks(s, Len(s)))

\* parseFloat: skips leading blanks, then reads the longest prefix
\* digits [. digits] (or . digits); NaN when there is no digit at all.
\* Signs, exponents and "Infinity" do not occur in the modelled cells.
parseFloat(s) ==
    LET i0   == LeadingBlanks(s, 1) + 1
        n1   == DigitRun(s, i0)
        dot  == i0 + n1
        n2   == IF dot <= Len(s) /\ s[dot] = "." THEN DigitRun(s, dot + 1) ELSE 0
        f1   == IF n2 >= 1 THEN DigitVal(s[dot + 1]) ELSE 0
        f2   == IF n2 >= 2 THEN DigitVal(s[dot + 2]) ELSE 0
    IN IF s = Undefined \/ n1 + n2 = 0 THEN NaN
       ELSE Num(100 * DigitsValue(s, i0, n1) + 10 * f1 + f2)

\* /^\d+(\.\d+)?$/.test(s)
IsDecimalLiteral(s) ==
    LET n1 == DigitRun(s, 1)
        n2 == DigitRun(s, n1 + 2)
    IN /\ n1 >= 1
       /\ \/ n1 = Len(s)
          \/ /\ n1 + 1 <= Len(s)
             /\ s[n1 + 1] = "."
             /\ n2 >= 1
             /\ n1 + 1 + n2 = Len(s)

\* /^\d{1,2}\/\d{1,2}\/\d{4}$/.test(s): the month, day and year fields
\* of s when it matches, <<>> otherwise.
DateFields(s) ==
    LET n1 == DigitRun(s, 1)
        n2 == DigitRun(s, n1 + 2)
        n3 == DigitRun(s, n1 + n2 + 3)
    IN IF /\ s # Undefined
          /\ n1 \in 1..2
          /\ n1 + 1 <= Len(s) /\ s[n1 + 1] = "/"
          /\ n2 \in 1..2
          /\ n1 + n2 + 2 <= Len(s) /\ s[n1 + n2 + 2] = "/"
          /\ n3 = 4
          /\ n1 + n2 + 6 = Len(s)
       THEN <<DigitsValue(s, 1, n1), DigitsValue(s, n1 + 2, n2),
              DigitsValue(s, n1 + n2 + 3, 4)>>
       ELSE <<>>

datePattern(s) == DateFields(s) # <<>>

\* /^\d{1,2}:\d{2}$/ : the hours and minutes of s when it matches.
TimeFields(s) ==
    LET n1 == DigitRun(s, 1)
        n2 == DigitRun(s, n1 + 2)
    IN IF /\ s # Undefined
          /\ n1 \in 1..2
          /\ n1 + 1 <= Len(s) /\ s[n1 + 1] = ":"
          /\ n2 = 2
          /\ n1 + 3 = Len(s)
       THEN <<DigitsValue(s, 1, n1), DigitsValue(s, n1 + 2, 2)>>
       ELSE <<>>

\* Days of the proleptic Gregorian calendar before the first of month m of
\* year y, counted from an arbitrary fixed origin.
DaysBeforeMonth(y, m) ==
    LET yy   == IF m <= 2 THEN y - 1 ELSE y
        mm   == IF m <= 2 THEN m + 9 ELSE m - 3
    IN 365 * yy + (yy \div 4) - (yy \div 100) + (yy \div 400)
         + ((153 * mm + 2) \div 5)

\* new Date(s) for a cell of the modelled universes, as a number of days:
\* a calendar date for "M/D/YYYY" with a month in 1..12 and a day in 1..31,
\* Invalid Date (NaN) otherwise.  The cells that do not match the pattern
\* and reach this parser contain no digit, which no engine parses.
DateParse(s) ==
    LET f == DateFields(s)
    IN IF f = <<>> \/ f[1] \notin 1..12 \/ f[2] \notin 1..31 THEN NaN
       ELSE Num(DaysBeforeMonth(f[3], f[1]) + f[2])

\* String.prototype.toLowerCase on the modelled alphabet.
LowerChar(c) ==
    CASE c = "A" -> "a" [] c = "B" -> "b" [] c = "C" -> "c" [] c = "D" -> "d"
      [] c = "E" -> "e" [] c = "N" -> "n" [] c = "R" -> "r" [] c = "S" -> "s"
      [] c = "T" -> "t" [] c = "V" -> "v"
      [] OTHER -> c

toLowerCase(s) == [i \in 1..Len(s) |-> LowerChar(s[i])]

\* Collation rank of a character of the modelled alphabet (root locale):
\* blank, punctuation, digits, letters.
CollationRank(c) ==
    CASE c = " " -> 0 [] c = ":" -> 1 [] c = "." -> 2 [] c = "/" -> 3
      [] c \in Digits -> 10 + DigitVal(c)
      [] c = "a" -> 20 [] c = "b" -> 21 [] c = "c" -> 22 [] c = "d" -> 23
      [] c = "e" -> 24 [] c = "i" -> 25 [] c = "m" -> 26 [] c = "n" -> 27
      [] c = "r" -> 28 [] c = "s" -> 29 [] c = "t" -> 30 [] c = "v" -> 31
      [] OTHER -> 40

\* a.localeCompare(b) for lower-cased strings of the modelled alphabet:
\* -1, 0 or 1 by the first position where the collation ranks differ.
RECURSIVE localeCompare(_, _, _)
localeCompare(a, b, i) ==
    IF i > Len(a) /\ i > Len(b) THEN 0
    ELSE IF i > Len(a) THEN -1
    ELSE IF i > Len(b) THEN 1
    ELSE IF CollationRank(a[i]) < CollationRank(b[i]) THEN -1
    ELSE IF CollationRank(a[i]) > CollationRank(b[i]) THEN 1
    ELSE localeCompare(a, b, i + 1)

----------------------------------------------------------------------------
(* Records.  A record is an object: it has an identity (id, its position   *)
(* in the fetched array) and its properties in insertion order.            *)

Directions == {"asc", "desc"}

\* The two stable algorithms behind Array.prototype.sort: V8's TimSort
\* (one run plus binary insertion below 64 elements) and a merge sort.
\* They agree whenever the comparator is consistent; the standard leaves
\* the order implementation-defined when it is not.
Engines == {"timsort", "mergesort"}

\* The value of the first property named column from position i on.
RECURSIVE GetFrom(_, _, _)
GetFrom(kv, column, i) ==
    IF i > Len(kv) THEN Undefined
    ELSE IF kv[i][1] = column THEN kv[i][2]
    ELSE GetFrom(kv, column, i + 1)

\* row[column]
Get(row, column) == GetFrom(row.kv, column, 1)

\* Object.keys(row)
Keys(row) == [i \in 1..Len(row.kv) |-> row.kv[i][1]]

\* value || '' for a cell value (a string or undefined)
OrEmpty(value) == IF value = Undefined THEN <<>> ELSE value

\* array.slice(0, n)
Take(seq, n) == SubSeq(seq, 1, IF n < Len(seq) THEN n ELSE Len(seq))

----------------------------------------------------------------------------
(* Column type inference and sorting (footer.js 278-351) *)

\* getColumnDataType: the first few non-empty values of the column.
sampleValues(rows, column) ==
    LET values == [i \in 1..Len(rows) |-> Get(rows[i], column)]
    IN Take(SelectSeq(values, LAMBDA v : v # Undefined /\ v # <<>>), 3)

\* getColumnDataType that looks at every non-empty value of the column.
getColumnDataType_allValues(rows, column) ==
    IF Len(rows) = 0 THEN "text"
    ELSE
      LET values == [i \in 1..Len(rows) |-> Get(rows[i], column)]
          samples == SelectSeq(values, LAMBDA v : v # Undefined /\ v # <<>>)
          every(P(_)) == \A i \in 1..Len(samples) : P(samples[i])
      IN IF Len(samples) = 0 THEN "text"
         ELSE IF every(datePattern) THEN "date"
         ELSE IF every(LAMBDA v : ~parseFloat(v).nan) THEN "number"
         ELSE "text"

getColumnDataType(rows, column) ==
    IF Len(rows) = 0 THEN "text"
    ELSE
      LET samples == sampleValues(rows, column)
          every(P(_)) == \A i \in 1..Len(samples) : P(samples[i])
      IN IF Len(samples) = 0 THEN "text"
         ELSE IF every(datePattern) THEN "date"
         ELSE IF every(LAMBDA v : ~parseFloat(v).nan) THEN "number"
         ELSE "text"

\* compare with "a > b ? 1 : -1" as the number comparison: equal numbers
\* compare as smaller in both orders.
compare_tiesAsLess(a, b, ctx) ==
    LET valueA == OrEmpty(Get(a, ctx.column))
        valueB == OrEmpty(Get(b, ctx.column))
        numA == parseFloat(valueA)
        numB == parseFloat(valueB)
        comparison ==
            CASE ctx.dataType = "date" ->
                   Minus(DateParse(valueA), DateParse(valueB))
              [] ctx.dataType = "number" ->
                   IF numA.nan \/ numB.nan THEN Num(-1)
                   ELSE IF numA.v > numB.v THEN Num(1) ELSE Num(-1)
              [] OTHER ->
                   Num(localeCompare(toLowerCase(valueA), toLowerCase(valueB), 1))
    IN IF valueA = <<>> /\ valueB = <<>> THEN Num(0)
       ELSE IF valueA = <<>> THEN (IF ctx.direction = "asc" THEN Num(1) ELSE Num(-1))
       ELSE IF valueB = <<>> THEN (IF ctx.direction = "asc" THEN Num(-1) ELSE Num(1))
       ELSE IF ctx.direction = "desc" THEN Negate(comparison) ELSE comparison

\* compare without the negation under "desc".
compare_noNegate(a, b, ctx) ==
    LET valueA == OrEmpty(Get(a, ctx.column))
        valueB == OrEmpty(Get(b, ctx.column))
        comparison ==
            CASE ctx.dataType = "date" ->
                   Minus(DateParse(valueA), DateParse(valueB))
              [] ctx.dataType = "number" ->
                   Minus(parseFloat(valueA), parseFloat(valueB))
              [] OTHER ->
                   Num(localeCompare(toLowerCase(valueA), toLowerCase(valueB), 1))
    IN IF valueA = <<>> /\ valueB = <<>> THEN Num(0)
       ELSE IF valueA = <<>> THEN (IF ctx.direction = "asc" THEN Num(1) ELSE Num(-1))
       ELSE IF valueB = <<>> THEN (IF ctx.direction = "asc" THEN Num(-1) ELSE Num(1))
       ELSE comparison

\* compare with an empty-value rule that ignores the direction: an empty
\* cell always counts as larger.
compare_emptyAlwaysLast(a, b, ctx) ==
    LET valueA == OrEmpty(Get(a, ctx.column))
        valueB == OrEmpty(Get(b, ctx.column))
        comparison ==
            CASE ctx.dataType = "date" ->
                   Minus(DateParse(valueA), DateParse(valueB))
              [] ctx.dataType = "number" ->
                   Minus(parseFloat(valueA), parseFloat(valueB))
              [] OTHER ->
                   Num(localeCompare(toLowerCase(valueA), toLowerCase(valueB), 1))
    IN IF valueA = <<>> /\ valueB = <<>> THEN Num(0)
       ELSE IF valueA = <<>> THEN Num(1)
       ELSE IF valueB = <<>> THEN Num(-1)
       ELSE IF ctx.direction = "desc" THEN Negate(comparison) ELSE comparison

\* The comparator of sortData: the number it returns for rows a and b.
\* ctx is what the closure captures: column, dataType and direction.
compare(a, b, ctx) ==
    LET valueA == OrEmpty(Get(a, ctx.column))
        valueB == OrEmpty(Get(b, ctx.column))
        comparison ==
            CASE ctx.dataType = "date" ->
                   Minus(DateParse(valueA), DateParse(valueB))
              [] ctx.dataType = "number" ->
                   Minus(parseFloat(valueA), parseFloat(valueB))
              [] OTHER ->
                   Num(localeCompare(toLowerCase(valueA), toLowerCase(valueB), 1))
    IN IF valueA = <<>> /\ valueB = <<>> THEN Num(0)
       ELSE IF valueA = <<>> THEN (IF ctx.direction = "asc" THEN Num(1) ELSE Num(-1))
       ELSE IF valueB = <<>> THEN (IF ctx.direction = "asc" THEN Num(-1) ELSE Num(1))
       ELSE IF ctx.direction = "desc" THEN Negate(comparison) ELSE comparison

\* SortCompare of Array.prototype.sort: the sign of the comparator's
\* result, NaN counting as +0.
SortCompare(a, b, ctx) ==
    LET v == compare(a, b, ctx)
    IN IF v.nan THEN 0 ELSE IF v.v < 0 THEN -1 ELSE IF v.v > 0 THEN 1 ELSE 0

Reverse(seq) == [i \in 1..Len(seq) |-> seq[Len(seq) + 1 - i]]

\* TimSort, CountAndMakeRun: the length of the run that starts the array,
\* strictly descending or non-descending; idx is the next position to test.
RECURSIVE RunLength(_, _, _, _)
RunLength(arr, idx, isDescending, ctx) ==
    IF idx > Len(arr) THEN Len(arr)
    ELSE LET order == SortCompare(arr[idx], arr[idx - 1], ctx)
         IN IF (isDescending /\ order >= 0) \/ (~isDescending /\ order < 0)
            THEN idx - 1
            ELSE RunLength(arr, idx + 1, isDescending, ctx)

\* TimSort, BinaryInsertionSort: the position (0-based) where pivot goes
\* in the sorted prefix arr[left..right-1].
RECURSIVE BinarySearch(_, _, _, _, _)
BinarySearch(arr, pivot, left, right, ctx) ==
    IF left >= right THEN left
    ELSE LET mid == left + ((right - left) \div 2)
         IN IF SortCompare(pivot, arr[mid + 1], ctx) < 0
            THEN BinarySearch(arr, pivot, left, mid, ctx)
            ELSE BinarySearch(arr, pivot, mid + 1, right, ctx)

\* TimSort, BinaryInsertionSort: arr with the element at position start
\* moved to its place in the sorted prefix arr[1..start-1].
InsertPivot(arr, start, ctx) ==
    LET pivot == arr[start]
    IN UNION { { SubSeq(arr, 1, pos) \o <<pivot>>
                   \o SubSeq(arr, pos + 1, start - 1)
                   \o SubSeq(arr, start + 1, Len(arr)) }
               : pos \in {BinarySearch(arr, pivot, 0, start - 1, ctx)} }

\* The only element of a set of one element.  (An expression x \in {e}
\* binds x to the value of e, which is then computed once.)
The(set) == CHOOSE x \in set : TRUE

\* TimSort, BinaryInsertionSort: arr[1..start-1] is sorted; insert the
\* elements from position start on, one by one.
RECURSIVE BinaryInsertionSort(_, _, _)
BinaryInsertionSort(arr, start, ctx) ==
    IF start > Len(arr) THEN arr
    ELSE The(UNION { { BinaryInsertionSort(next, k, ctx) : k \in {start + 1} }
                     : next \in InsertPivot(arr, start, ctx) })

\* TimSort for fewer than 64 elements: one run, then binary insertion.
TimSort(arr, ctx) ==
    IF Len(arr) < 2 THEN arr
    ELSE LET isDescending == SortCompare(arr[2], arr[1], ctx) < 0
         IN The(UNION {
              { BinaryInsertionSort(made, run + 1, ctx)
                : made \in { IF isDescending
                             THEN Reverse(SubSeq(arr, 1, run))
                                    \o SubSeq(arr, run + 1, Len(arr))
                             ELSE arr } }
              : run \in {RunLength(arr, 3, isDescending, ctx)} })

\* Stable merge: the right element goes first only when it is smaller.
\* i and j are the next positions of left and right.
RECURSIVE Merge(_, _, _, _, _)
Merge(left, i, right, j, ctx) ==
    IF i > Len(left) THEN SubSeq(right, j, Len(right))
    ELSE IF j > Len(right) THEN SubSeq(left, i, Len(left))
    ELSE IF SortCompare(right[j], left[i], ctx) < 0
         THEN <<right[j]>> \o Merge(left, i, right, j + 1, ctx)
         ELSE <<left[i]>> \o Merge(left, i + 1, right, j, ctx)

RECURSIVE MergeSort(_, _)
MergeSort(arr, ctx) ==
    IF Len(arr) < 2 THEN arr
    ELSE LET mid == Len(arr) \div 2
         IN The(UNION {
              { Merge(left, 1, right, 1, ctx)
                : right \in {MergeSort(SubSeq(arr, mid + 1, Len(arr)), ctx)} }
              : left \in {MergeSort(SubSeq(arr, 1, mid), ctx)} })

\* [...data].sort(comparator)
ArraySort(arr, ctx) ==
    IF engine = "timsort" THEN TimSort(arr, ctx) ELSE MergeSort(arr, ctx)

sortData(rows, column, direction) ==
    The(UNION {
      { ArraySort(arr, [column |-> column, dataType |-> dataType,
                        direction |-> direction])
        : dataType \in {getColumnDataType(arr, column)} }
      : arr \in {rows} })

----------------------------------------------------------------------------
(* Serial dates and the past-event filter (footer.js 130-141, 200-249) *)

\* Ticks in a day, an hour and a minute; hundredths of a day in ticks.
TicksPerMinute == 60 \div 6
TicksPerHour == 60 * TicksPerMinute
TicksPerDay == 24 * TicksPerHour
TicksPerCentiday == TicksPerDay \div 100

isExcelSerialDate(value) ==
    IF ~IsDecimalLiteral(Trim(value)) THEN FALSE
    ELSE LET num == parseFloat(value)
         IN ~num.nan /\ num.v >= 1 * 100 /\ num.v < 100000 * 100

\* The Date that createDateTimeFromExcel returns, in ticks since
\* 1900-01-01 00:00 local time.  setHours keeps the local calendar day.
createDateTimeFromExcel(serialDate, timeString) ==
    LET date == (parseFloat(serialDate).v - 2 * 100) * TicksPerCentiday
        time == TimeFields(timeString)
    IN IF timeString # Undefined /\ timeString # <<>> /\ time # <<>>
       THEN (date \div TicksPerDay) * TicksPerDay
              + time[1] * TicksPerHour + time[2] * TicksPerMinute
       ELSE date

\* isEventInPast with "<=" in place of "<".
isEventInPast_orEqual(row, dateColumn, timeColumn, now) ==
    LET dateValue == Get(row, dateColumn)
        timeValue == Get(row, timeColumn)
    IN IF dateValue = Undefined \/ dateValue = <<>> \/ ~isExcelSerialDate(dateValue)
       THEN FALSE
       ELSE createDateTimeFromExcel(dateValue, timeValue) <= now

\* now is the reading of "new Date()" made for this row.
isEventInPast(row, dateColumn, timeColumn, now) ==
    LET dateValue == Get(row, dateColumn)
        timeValue == Get(row, timeColumn)
    IN IF dateValue = Undefined \/ dateValue = <<>> \/ ~isExcelSerialDate(dateValue)
       THEN FALSE
       ELSE createDateTimeFromExcel(dateValue, timeValue) < now

\* data.filter(...) from position i on; clock[i] is the reading of the
\* clock made while row i is examined.
RECURSIVE FilterFrom(_, _, _, _, _)
FilterFrom(data, i, dateColumn, timeColumn, clock) ==
    IF i > Len(data) THEN <<>>
    ELSE (IF isEventInPast(data[i], dateColumn, timeColumn, clock[i])
          THEN <<>> ELSE <<data[i]>>)
           \o FilterFrom(data, i + 1, dateColumn, timeColumn, clock)

filterPastEvents(data, dateColumn, timeColumn, clock) ==
    IF dateColumn = <<>> \/ dateColumn = Undefined
         \/ timeColumn = <<>> \/ timeColumn = Undefined
    THEN data
    ELSE FilterFrom(data, 1, dateColumn, timeColumn, clock)

----------------------------------------------------------------------------
(* The table: pagination, rendering, createTable (footer.js 382-744) *)

\* The value null.
Null == <<"null">>

ColName == <<"N", "a", "m", "e">>
ColStartDate ==
    <<"E", "v", "e", "n", "t", " ", "S", "t", "a", "r", "t", " ", "D", "a", "t", "e">>
ColStartDateUpper ==
    <<"E", "V", "E", "N", "T", " ", "S", "T", "A", "R", "T", " ", "D", "A", "T", "E">>
ColEndDate == <<"E", "v", "e", "n", "t", " ", "E", "n", "d", " ", "D", "a", "t", "e">>
ColEndTime == <<"E", "v", "e", "n", "t", " ", "E", "n", "d", " ", "T", "i", "m", "e">>

\* String.prototype.endsWith, replace(/suffix$/, by), includes
EndsWith(s, suffix) ==
    Len(s) >= Len(suffix) /\ SubSeq(s, Len(s) - Len(suffix) + 1, Len(s)) = suffix

ReplaceSuffix(s, suffix, by) == SubSeq(s, 1, Len(s) - Len(suffix)) \o by

Includes(s, sub) ==
    \E i \in 0..(Len(s) - Len(sub)) : SubSeq(s, i + 1, i + Len(sub)) = sub

\* Array.prototype.includes
Contains(seq, x) == \E i \in 1..Len(seq) : seq[i] = x

\* Math.ceil(a / b) for a >= 0, b > 0
Ceil(a, b) == (a + b - 1) \div b

\* The options of the items-per-page selector.
ItemsPerPageOptions == {10, 25, 50, 100}

\* getPaginatedData with page * itemsPerPage as the start index.
getPaginatedData_offByOne(rows, page, perPage) ==
    LET startIndex == page * perPage
        endIndex   == startIndex + perPage
    IN SubSeq(rows, startIndex + 1, IF endIndex < Len(rows) THEN endIndex ELSE Len(rows))

\* data.slice(startIndex, endIndex)
getPaginatedData(rows, page, perPage) ==
    LET startIndex == (page - 1) * perPage
        endIndex   == startIndex + perPage
    IN SubSeq(rows, startIndex + 1, IF endIndex < Len(rows) THEN endIndex ELSE Len(rows))

\* The body that renderTableBody builds: one <tr> per record, in order.
renderTableBody(rows) == [k \in 1..Len(rows) |-> rows[k].id]

\* The indicators that updateSortIndicators leaves on the headers.
updateSortIndicators(columns, activeColumn, direction) ==
    [i \in 1..Len(columns) |->
        IF columns[i] = activeColumn
        THEN (IF direction = "asc" THEN "up" ELSE "down")
        ELSE "neutral"]

\* updatePaginationControls that disables Next only on the page after the
\* last one.
updatePaginationControls_lateNext(rows, page, perPage) ==
    LET totalPages == Ceil(Len(rows), perPage)
    IN [prevDisabled |-> page = 1,
        pageInfo     |-> <<page, totalPages>>,
        nextDisabled |-> page > totalPages,
        totalPages   |-> totalPages + 1]

\* The .page-navigation that updatePaginationControls rebuilds; its click
\* handlers keep the totalPages computed here.
updatePaginationControls(rows, page, perPage) ==
    LET totalPages == Ceil(Len(rows), perPage)
    IN [prevDisabled |-> page = 1,
        pageInfo     |-> <<page, totalPages>>,
        nextDisabled |-> page >= totalPages,
        totalPages   |-> totalPages]

NoPageNav ==
    [prevDisabled |-> TRUE, pageInfo |-> <<0, 0>>, nextDisabled |-> TRUE,
     totalPages |-> 0]

\* DisplayColumns that hides every column whose name ends in "Time".
DisplayColumns_hideAllTime(rows, columns) ==
    LET chosen == IF columns # Null /\ Len(columns) > 0 THEN columns
                  ELSE Keys(rows[1])
    IN SelectSeq(chosen, LAMBDA column : ~EndsWith(column, <<"T", "i", "m", "e">>))

\* createTable: the display columns for the configured column list.
DisplayColumns(rows, columns) ==
    LET chosen == IF columns # Null /\ Len(columns) > 0 THEN columns
                  ELSE Keys(rows[1])
        Shown(column) ==
            IF EndsWith(column, <<"T", "i", "m", "e">>)
            THEN ~Contains(chosen, ReplaceSuffix(column, <<"T", "i", "m", "e">>,
                                                  <<"D", "a", "t", "e">>))
            ELSE TRUE
    IN SelectSeq(chosen, Shown)

\* EventStartDateColumn that accepts the exact name only.
EventStartDateColumn_exactName(columns) ==
    LET hits == {i \in 1..Len(columns) : columns[i] = ColStartDate}
    IN IF hits = {} THEN Undefined
       ELSE columns[CHOOSE i \in hits : \A j \in hits : i <= j]

\* createTable: the first display column whose lower-cased name includes
\* "event start date", or undefined.
EventStartDateColumn(columns) ==
    LET hits == {i \in 1..Len(columns) :
                    \/ Includes(toLowerCase(columns[i]), toLowerCase(ColStartDate))
                    \/ columns[i] = ColStartDate}
    IN IF hits = {} THEN Undefined
       ELSE columns[CHOOSE i \in hits : \A j \in hits : i <= j]

----------------------------------------------------------------------------
(* The text of the cells (footer.js 110-192, 425-440) *)

\* The decimal digits of a natural number.
DigitChar(d) ==
    CASE d = 0 -> "0" [] d = 1 -> "1" [] d = 2 -> "2" [] d = 3 -> "3"
      [] d = 4 -> "4" [] d = 5 -> "5" [] d = 6 -> "6" [] d = 7 -> "7"
      [] d = 8 -> "8" [] d = 9 -> "9"

RECURSIVE Str(_)
Str(n) == IF n < 10 THEN <<DigitChar(n)>> ELSE Str(n \div 10) \o <<DigitChar(n % 10)>>

\* String(n).padStart(2, '0')
PadStart2(n) == IF n < 10 THEN <<"0">> \o Str(n) ELSE Str(n)

\* The local calendar day of a Date: year, month and day of the day that
\* holds the tick, day 0 being 1900-01-01.
CalendarDate(ticks) ==
    LET n == ticks \div TicksPerDay
        N == n + DaysBeforeMonth(1900, 1) + 1
        y == CHOOSE y \in (1900 + n \div 366)..(1900 + n \div 365 + 1) :
                 DaysBeforeMonth(y, 1) + 1 <= N /\ N <= DaysBeforeMonth(y + 1, 1)
        m == CHOOSE m \in 1..12 :
                 /\ DaysBeforeMonth(y, m) + 1 <= N
                 /\ m < 12 => N <= DaysBeforeMonth(y, m + 1)
    IN [year |-> y, month |-> m, day |-> N - DaysBeforeMonth(y, m)]

\* MM/DD/YYYY of the serial date
formatExcelDate(serialDate) ==
    LET date == CalendarDate((parseFloat(serialDate).v - 2 * 100) * TicksPerCentiday)
    IN PadStart2(date.month) \o <<"/">> \o PadStart2(date.day) \o <<"/">>
         \o Str(date.year)

formatCellValue(value) ==
    IF value = <<>> \/ value = Undefined THEN <<>>
    ELSE IF isExcelSerialDate(value) THEN formatExcelDate(value)
    ELSE value

formatDateTimeValue(dateValue, timeValue) ==
    IF dateValue = <<>> \/ dateValue = Undefined THEN <<>>
    ELSE LET formattedDate == IF isExcelSerialDate(dateValue)
                              THEN formatExcelDate(dateValue) ELSE dateValue
         IN IF timeValue # <<>> /\ timeValue # Undefined /\ Trim(timeValue) # <<>>
            THEN formattedDate \o <<" ">> \o timeValue
            ELSE formattedDate

getTimeColumnForDate(dateColumn, columns) ==
    IF EndsWith(dateColumn, <<"D", "a", "t", "e">>)
    THEN LET timeColumn == ReplaceSuffix(dateColumn, <<"D", "a", "t", "e">>,
                                         <<"T", "i", "m", "e">>)
         IN IF Contains(columns, timeColumn) THEN timeColumn ELSE Null
    ELSE Null

\* renderTableBody: the text of the cells of the <tr> of row.
renderCells(row, columns, columnsOfData) ==
    [c \in 1..Len(columns) |->
        LET timeColumn == getTimeColumnForDate(columns[c], columnsOfData)
        IN IF timeColumn # Null
           THEN formatDateTimeValue(OrEmpty(Get(row, columns[c])),
                                    OrEmpty(Get(row, timeColumn)))
           ELSE formatCellValue(OrEmpty(Get(row, columns[c])))]

----------------------------------------------------------------------------
(* The fetched documents and the block configurations *)

\* Record number i of a fetched array whose pattern starts at variant:
\* names in two cases and empty, start dates out of order and repeated,
\* end dates around 45001 or not a date, the end time on every other row.
\* The sheets of odd variants name the start date column in upper case.
FetchedRow(i, variant) ==
    LET k == i + variant
        name == CASE k % 4 = 0 -> <<"b">> [] k % 4 = 1 -> <<"a">>
                  [] k % 4 = 2 -> <<"B">> [] OTHER -> <<>>
        start == Str(45000 + ((k * 3) % 5))
        end == IF k % 7 = 6 THEN <<"b">> ELSE Str(45000 + (k % 3))
    IN [id |-> i,
        kv |-> << <<ColName, name>>,
                  <<IF variant % 2 = 1 THEN ColStartDateUpper ELSE ColStartDate, start>>,
                  <<ColEndDate, end>> >>
                 \o (IF k % 2 = 0
                     THEN << <<ColEndTime, <<"0", "6", ":", "0", "0">>>> >>
                     ELSE <<>>)]

FetchedRows(n, variant) == [i \in 1..n |-> FetchedRow(i, variant)]

RowCounts == {0, 1, 10, 11, MaxRows - 3, MaxRows}

\* The lengths of the arrays fetched inside an object, as its data member.
WrappedRowCounts == {0, 1, 11}

\* What fetchData resolves to: null after a failure (failed fetch, HTTP
\* error, invalid JSON), or the parsed document: null, false, 0, "", an
\* object without an array as data, a non-empty string, an array of
\* records, or an object whose data member is one.
JsonValues ==
    { [kind |-> k, rows |-> <<>>] :
        k \in {"failed", "null", "false", "zero", "emptyString", "object", "string"} }
    \cup { [kind |-> "array", rows |-> FetchedRows(n, v)] :
             n \in RowCounts, v \in 0..MaxVariant }
    \cup { [kind |-> "wrapped", rows |-> FetchedRows(n, v)] :
             n \in WrappedRowCounts, v \in 0..MaxVariant }

\* !jsonData
Falsy(json) == json.kind \in {"failed", "null", "false", "zero", "emptyString"}

\* Array.isArray(jsonData.data || jsonData)
IsArrayData(json) == json.kind \in {"array", "wrapped"}

\* The reading of the clock while decorate filters: 06:00 on day 45001.
Now == (45001 - 2) * TicksPerDay + 6 * TicksPerHour

\* The block configurations: with or without a source, all columns, a
\* list without the start date or a list that names a column twice, the
\* past-event filter on or off.
Configs ==
    [source : {<<"/">>, <<>>},
     columns : {Null, <<ColName, ColEndDate, ColEndTime>>,
                <<ColName, ColStartDate, ColName>>},
     filterPastEvents : BOOLEAN]

\* No document fetched, no column sorted, nothing rendered yet.
NoPayload == [kind |-> "none", rows |-> <<>>]
NoInference == [sampleValues |-> <<>>, dataType |-> "none"]
NoRender == [done |-> FALSE, headers |-> <<>>, cells |-> <<>>]
NotSorted == [done |-> FALSE, rows |-> <<>>, dataType |-> "none"]

\* sortData(rows, column, .): what getColumnDataType sampled and inferred.
Inferred(rows, column) ==
    [sampleValues |-> sampleValues(rows, column),
     dataType |-> getColumnDataType(rows, column)]

RenderIdle ==
    /\ rIn = [columns |-> Null, rows |-> <<>>]
    /\ rOut = NoRender

----------------------------------------------------------------------------
(* decorate and the event handlers (footer.js 476-620, 750-829) *)

\* Handlers attached to the controls before fetchData is awaited.
HandlersAttached_beforeFetch ==
    \/ pc = "fetching"
    \/ pc = "done" /\ block = <<"pagination-controls", "table">>

\* The listeners of the headers, the buttons and the selector exist.
HandlersAttached == pc = "done" /\ block = <<"pagination-controls", "table">>

BlockInit ==
    /\ pc = "start"
    /\ config \in Configs
    /\ block = <<"config">>
    /\ originalData = <<>>
    /\ allColumns = <<>>
    /\ displayColumns = <<>>
    /\ currentPage = 0
    /\ itemsPerPage = 0
    /\ currentData = <<>>
    /\ sortColumn = Null
    /\ sortDirection = "asc"
    /\ tbody = <<>>
    /\ indicators = <<>>
    /\ pageNav = NoPageNav
    /\ lastEvent = [type |-> "none", arg |-> 0]
    /\ fetches = 0
    /\ payload = NoPayload
    /\ inference = NoInference

\* Decorate that calls fetchData before it validates the source URL.
Decorate_fetchFirst ==
    /\ pc = "start"
    /\ fetches' = fetches + 1
    /\ IF config.source = <<>>
       THEN pc' = "done" /\ block' = <<"error-config">>
       ELSE pc' = "fetching" /\ block' = <<"loading">>
    /\ UNCHANGED <<engine, renderVars, sortVars, filterVars, config, payload,
                   tableVars, stateVars, domVars, inference, lastEvent>>

\* decorate up to the await of fetchData
Decorate ==
    /\ pc = "start"
    /\ IF config.source = <<>>
       THEN pc' = "done" /\ block' = <<"error-config">> /\ fetches' = fetches
       ELSE pc' = "fetching" /\ block' = <<"loading">> /\ fetches' = fetches + 1
    /\ UNCHANGED <<engine, renderVars, sortVars, filterVars, config, payload,
                   tableVars, stateVars, domVars, inference, lastEvent>>

\* createTable(rows, config.columns, block) for a non-empty array, and
\* the append of the table
CreateTable(rows) ==
    /\ originalData' = rows
    /\ allColumns' = Keys(rows[1])
    /\ displayColumns' = DisplayColumns(rows, config.columns)
    /\ LET eventStartDateColumn == EventStartDateColumn(displayColumns')
       IN IF eventStartDateColumn # Undefined
          THEN /\ currentData' = sortData(rows, eventStartDateColumn, "asc")
               /\ inference' = Inferred(rows, eventStartDateColumn)
               /\ sortColumn' = eventStartDateColumn
               /\ indicators' = updateSortIndicators(displayColumns',
                                                     eventStartDateColumn, "asc")
          ELSE /\ currentData' = rows
               /\ inference' = inference
               /\ sortColumn' = Null
               /\ indicators' = [i \in 1..Len(displayColumns') |-> "neutral"]
    /\ currentPage' = 1
    /\ itemsPerPage' = 10
    /\ sortDirection' = "asc"
    /\ tbody' = renderTableBody(getPaginatedData(currentData', currentPage', itemsPerPage'))
    /\ pageNav' = updatePaginationControls(currentData', currentPage', itemsPerPage')
    /\ block' = <<"pagination-controls", "table">>

\* decorate from the settling of fetchData to its end
FetchSettled(jsonData) ==
    /\ pc = "fetching"
    /\ pc' = "done"
    /\ lastEvent' = [type |-> "load", arg |-> 0]
    /\ payload' = jsonData
    /\ fetches' = fetches
    /\ IF Falsy(jsonData)
       THEN /\ block' = <<"error-load">>
            /\ UNCHANGED <<tableVars, stateVars, domVars, inference>>
       ELSE IF ~IsArrayData(jsonData)
       THEN /\ block' = <<"error-format">>
            /\ UNCHANGED <<tableVars, stateVars, domVars, inference>>
       ELSE LET clock == [i \in 1..Len(jsonData.rows) |-> Now]
            IN \E rows \in { IF config.filterPastEvents
                              THEN filterPastEvents(jsonData.rows, ColEndDate,
                                                    ColEndTime, clock)
                              ELSE jsonData.rows } :
                 IF Len(rows) = 0
                 THEN /\ block' = <<"table-empty">>
                      /\ UNCHANGED <<tableVars, stateVars, domVars, inference>>
                 ELSE CreateTable(rows)
    /\ UNCHANGED <<engine, renderVars, sortVars, filterVars, config>>

\* The direction a click on the header of column sets, with the toggle
\* applied whatever the column.
ClickDirection_alwaysToggle(column) ==
    IF sortDirection = "asc" THEN "desc" ELSE "asc"

\* The direction a click on the header of column sets.
ClickDirection(column) ==
    IF sortColumn = column
    THEN (IF sortDirection = "asc" THEN "desc" ELSE "asc")
    ELSE "asc"

\* HeaderClick that sorts the currently sorted array, not the original.
HeaderClick_sortsCurrent(index) ==
    /\ HandlersAttached
    /\ index \in 1..Len(displayColumns)
    /\ LET column == displayColumns[index]
       IN /\ sortDirection' = ClickDirection(column)
          /\ sortColumn' = column
          /\ indicators' = updateSortIndicators(displayColumns, column, sortDirection')
          /\ currentData' = sortData(currentData, column, sortDirection')
          /\ inference' = Inferred(currentData, column)
    /\ currentPage' = 1
    /\ tbody' = renderTableBody(getPaginatedData(currentData', currentPage', itemsPerPage))
    /\ pageNav' = updatePaginationControls(currentData', currentPage', itemsPerPage)
    /\ lastEvent' = [type |-> "header", arg |-> index]
    /\ UNCHANGED <<engine, renderVars, sortVars, filterVars, pc, config, block,
                   fetchVars, tableVars, itemsPerPage>>

\* click on the header number index
HeaderClick(index) ==
    /\ HandlersAttached
    /\ index \in 1..Len(displayColumns)
    /\ LET column == displayColumns[index]
       IN /\ sortDirection' = ClickDirection(column)
          /\ sortColumn' = column
          /\ indicators' = updateSortIndicators(displayColumns, column, sortDirection')
          /\ currentData' = sortData(originalData, column, sortDirection')
          /\ inference' = Inferred(originalData, column)
    /\ currentPage' = 1
    /\ tbody' = renderTableBody(getPaginatedData(currentData', currentPage', itemsPerPage))
    /\ pageNav' = updatePaginationControls(currentData', currentPage', itemsPerPage)
    /\ lastEvent' = [type |-> "header", arg |-> index]
    /\ UNCHANGED <<engine, renderVars, sortVars, filterVars, pc, config, block,
                   fetchVars, tableVars, itemsPerPage>>

\* click on Previous
PrevClick ==
    /\ HandlersAttached
    /\ IF currentPage > 1
       THEN /\ currentPage' = currentPage - 1
            /\ tbody' = renderTableBody(
                          getPaginatedData(currentData, currentPage', itemsPerPage))
            /\ pageNav' = updatePaginationControls(currentData, currentPage',
                                                   itemsPerPage)
       ELSE UNCHANGED <<currentPage, tbody, pageNav>>
    /\ lastEvent' = [type |-> "prev", arg |-> currentPage]
    /\ UNCHANGED <<engine, renderVars, sortVars, filterVars, pc, config, block,
                   fetchVars, tableVars, inference,
                   itemsPerPage, currentData, sortColumn, sortDirection, indicators>>

\* NextClick without the test of the page count.
NextClick_noGuard ==
    /\ HandlersAttached
    /\ currentPage' = currentPage + 1
    /\ tbody' = renderTableBody(
                  getPaginatedData(currentData, currentPage', itemsPerPage))
    /\ pageNav' = updatePaginationControls(currentData, currentPage', itemsPerPage)
    /\ lastEvent' = [type |-> "next", arg |-> currentPage]
    /\ UNCHANGED <<engine, renderVars, sortVars, filterVars, pc, config, block,
                   fetchVars, tableVars, inference,
                   itemsPerPage, currentData, sortColumn, sortDirection, indicators>>

\* click on Next
NextClick ==
    /\ HandlersAttached
    /\ IF currentPage < pageNav.totalPages
       THEN /\ currentPage' = currentPage + 1
            /\ tbody' = renderTableBody(
                          getPaginatedData(currentData, currentPage', itemsPerPage))
            /\ pageNav' = updatePaginationControls(currentData, currentPage',
                                                   itemsPerPage)
       ELSE UNCHANGED <<currentPage, tbody, pageNav>>
    /\ lastEvent' = [type |-> "next", arg |-> currentPage]
    /\ UNCHANGED <<engine, renderVars, sortVars, filterVars, pc, config, block,
                   fetchVars, tableVars, inference,
                   itemsPerPage, currentData, sortColumn, sortDirection, indicators>>

\* ItemsPerPageChange that renders the body and leaves .page-navigation,
\* and the page count its handlers hold, as they were.
ItemsPerPageChange_staleNav(n) ==
    /\ HandlersAttached
    /\ n \in ItemsPerPageOptions
    /\ itemsPerPage' = n
    /\ currentPage' = 1
    /\ tbody' = renderTableBody(getPaginatedData(currentData, currentPage', itemsPerPage'))
    /\ lastEvent' = [type |-> "items", arg |-> n]
    /\ UNCHANGED <<engine, renderVars, sortVars, filterVars, pc, config, block,
                   fetchVars, tableVars, inference,
                   currentData, sortColumn, sortDirection, indicators, pageNav>>

\* ItemsPerPageChange that keeps the current page.
ItemsPerPageChange_keepPage(n) ==
    /\ HandlersAttached
    /\ n \in ItemsPerPageOptions
    /\ itemsPerPage' = n
    /\ currentPage' = currentPage
    /\ tbody' = renderTableBody(getPaginatedData(currentData, currentPage', itemsPerPage'))
    /\ pageNav' = updatePaginationControls(currentData, currentPage', itemsPerPage')
    /\ lastEvent' = [type |-> "items", arg |-> n]
    /\ UNCHANGED <<engine, renderVars, sortVars, filterVars, pc, config, block,
                   fetchVars, tableVars, inference,
                   currentData, sortColumn, sortDirection, indicators>>

\* change of the items-per-page selector to the option n
ItemsPerPageChange(n) ==
    /\ HandlersAttached
    /\ n \in ItemsPerPageOptions
    /\ itemsPerPage' = n
    /\ currentPage' = 1
    /\ tbody' = renderTableBody(getPaginatedData(currentData, currentPage', itemsPerPage'))
    /\ pageNav' = updatePaginationControls(currentData, currentPage', itemsPerPage')
    /\ lastEvent' = [type |-> "items", arg |-> n]
    /\ UNCHANGED <<engine, renderVars, sortVars, filterVars, pc, config, block,
                   fetchVars, tableVars, inference,
                   currentData, sortColumn, sortDirection, indicators>>

Init ==
    /\ engine \in Engines
    /\ sIn = <<>>
    /\ sOut = [d \in {"asc", "desc"} |-> NotSorted]
    /\ sRe = [d \in {"asc", "desc"} |-> NotSorted]
    /\ fIn = <<>>
    /\ fClock = <<>>
    /\ fOut = [done |-> FALSE, rows |-> <<>>]
    /\ RenderIdle
    /\ BlockInit

Next ==
    \/ Decorate
    \/ \E jsonData \in JsonValues : FetchSettled(jsonData)
    \/ \E index \in 1..Len(displayColumns) : HeaderClick(index)
    \/ PrevClick
    \/ NextClick
    \/ \E n \in ItemsPerPageOptions : ItemsPerPageChange(n)

Spec == Init /\ [][Next]_vars

\* The block before decorate runs, for the specifications of the pure
\* functions.
BlockIdle ==
    /\ BlockInit
    /\ config = [source |-> <<>>, columns |-> Null, filterPastEvents |-> FALSE]

----------------------------------------------------------------------------
(* The sorter under test: sortData applied to every record sequence of at  *)
(* most MaxSortLen records over three universes of cells, once and twice, *)
(* in both directions.                                                     *)

SortCol == <<"D", "u", "e">>

\* Cells of a column of numbers and text: a missing cell, an empty one,
\* three numbers and a text.
NumCells ==
    { Undefined, <<>>, <<"1", "0">>, <<"9">>, <<"8">>, <<"b">> }

\* Cells of a column of display dates and text: an empty cell, three
\* days and a text.
DateCells ==
    { <<>>,
      <<"1", "/", "2", "/", "2", "0", "2", "0">>,
      <<"1", "2", "/", "2", "5", "/", "2", "0", "1", "9">>,
      <<"2", "/", "1", "4", "/", "2", "0", "2", "0">>,
      <<"b">> }

\* Cells of a column that mixes display dates and numbers.
MixCells ==
    { <<>>, <<"1", "/", "2", "/", "2", "0", "2", "0">>, <<"9">> }

\* The record number i of a fetched array with one column.
MkRow(i, cell) ==
    [id |-> i, kv |-> IF cell = Undefined THEN <<>> ELSE << <<SortCol, cell>> >>]

NotRun == [done |-> FALSE, rows |-> <<>>]
Ran(rows) == [done |-> TRUE, rows |-> rows]

\* The result of a call of sortData and the type the call inferred.
Sorted(rows, dataType) == [done |-> TRUE, rows |-> rows, dataType |-> dataType]

FilterIdle ==
    /\ fIn = <<>>
    /\ fClock = <<>>
    /\ fOut = NotRun

SortInit ==
    /\ engine \in Engines
    /\ \E U \in {NumCells, DateCells, MixCells} : \E n \in 0..MaxSortLen :
         \E f \in [1..n -> U] : sIn = [i \in 1..n |-> MkRow(i, f[i])]
    /\ sOut = [d \in Directions |-> NotSorted]
    /\ sRe = [d \in Directions |-> NotSorted]
    /\ FilterIdle
    /\ RenderIdle
    /\ BlockIdle

\* sortData(data, column, direction) on the drawn input
Sort(d) ==
    /\ ~sOut[d].done
    /\ sOut' = [sOut EXCEPT ![d] = Sorted(sortData(sIn, SortCol, d),
                                          getColumnDataType(sIn, SortCol))]
    /\ UNCHANGED <<engine, renderVars, sIn, sRe, filterVars, blockVars>>

\* sortData applied to its own result, same column and direction
SortAgain(d) ==
    /\ sOut[d].done
    /\ ~sRe[d].done
    /\ sRe' = [sRe EXCEPT ![d] = Sorted(sortData(sOut[d].rows, SortCol, d),
                                        getColumnDataType(sOut[d].rows, SortCol))]
    /\ UNCHANGED <<engine, renderVars, sIn, sOut, filterVars, blockVars>>

SortNext ==
    \/ \E d \in Directions : Sort(d)
    \/ \E d \in Directions : SortAgain(d)

SortSpec == SortInit /\ [][SortNext]_vars

----------------------------------------------------------------------------
(* Properties of the rendered table *)

\* A non-empty table is rendered, with its headers and pagination controls.
Rendered == HandlersAttached

\* max(1, ceil(len(currentData) / itemsPerPage))
TotalPages ==
    LET pages == Ceil(Len(currentData), itemsPerPage)
    IN IF pages < 1 THEN 1 ELSE pages

\* C1: on a rendered table, after any sequence of header clicks, Previous
\* and Next clicks and items-per-page changes, currentPage is at least 1
\* and at most max(1, ceil(len(currentData)/itemsPerPage)).
C1_PageInRange ==
    Rendered => (1 <= currentPage /\ currentPage <= TotalPages)

\* Next was clicked on the last of three pages, after a sort.
C1_Witness ==
    /\ Rendered
    /\ lastEvent = [type |-> "next", arg |-> 3]
    /\ currentPage = 3
    /\ TotalPages = 3
    /\ sortDirection = "desc"

\* C2: a click on the header of column c sets sortColumn to c, sets
\* sortDirection to the opposite of its value if c was already the sort
\* column and to "asc" otherwise, resets currentPage to 1 and leaves
\* itemsPerPage unchanged.
C2_HeaderClick ==
    [][ lastEvent'.type = "header" =>
          LET c == displayColumns[lastEvent'.arg]
          IN /\ sortColumn' = c
             /\ sortDirection' = IF sortColumn = c
                                 THEN (IF sortDirection = "asc" THEN "desc" ELSE "asc")
                                 ELSE "asc"
             /\ currentPage' = 1
             /\ itemsPerPage' = itemsPerPage ]_vars

\* The header of the default sort column was clicked while it was the
\* ascending sort column, at 25 items per page.
C2_Witness ==
    /\ Rendered
    /\ lastEvent.type = "header"
    /\ displayColumns[lastEvent.arg] = ColStartDate
    /\ sortColumn = ColStartDate
    /\ sortDirection = "desc"
    /\ itemsPerPage = 25
    /\ currentPage = 1

\* C3: Previous changes nothing on page 1 and otherwise decrements
\* currentPage by one; Next changes nothing when currentPage is at least
\* the totalPages of the current state and otherwise increments currentPage
\* by one; neither changes itemsPerPage, sortColumn, sortDirection or
\* currentData.
C3_PrevNext ==
    [][ /\ lastEvent'.type = "prev" =>
             IF currentPage = 1
             THEN UNCHANGED <<stateVars, domVars, tableVars, block>>
             ELSE /\ currentPage' = currentPage - 1
                  /\ UNCHANGED <<itemsPerPage, sortColumn, sortDirection, currentData>>
        /\ lastEvent'.type = "next" =>
             IF currentPage >= TotalPages
             THEN UNCHANGED <<stateVars, domVars, tableVars, block>>
             ELSE /\ currentPage' = currentPage + 1
                  /\ UNCHANGED <<itemsPerPage, sortColumn, sortDirection, currentData>>
      ]_vars

\* Next was clicked on the last page, page 2 at 25 items per page.
C3_Witness ==
    /\ Rendered
    /\ lastEvent = [type |-> "next", arg |-> 2]
    /\ itemsPerPage = 25
    /\ currentPage = 2
    /\ TotalPages = 2

\* C4: an items-per-page change to n sets itemsPerPage to n and currentPage
\* to 1 and leaves sortColumn, sortDirection and currentData unchanged;
\* itemsPerPage is always one of 10, 25, 50, 100, and 10 when the table is
\* created.
C4_ItemsPerPage ==
    [][ /\ lastEvent'.type = "items" =>
             /\ itemsPerPage' = lastEvent'.arg
             /\ currentPage' = 1
             /\ UNCHANGED <<sortColumn, sortDirection, currentData>>
        /\ Rendered' => itemsPerPage' \in {10, 25, 50, 100}
        /\ (lastEvent'.type = "load" /\ Rendered') => itemsPerPage' = 10
      ]_vars

\* The selector was changed to 50 on page 2 of a table sorted descending.
C4_Witness ==
    /\ Rendered
    /\ lastEvent = [type |-> "items", arg |-> 50]
    /\ itemsPerPage = 50
    /\ currentPage = 1
    /\ sortDirection = "desc"

\* C5: while pagination controls exist, the label shows currentPage and
\* max(1, ceil(len(currentData)/itemsPerPage)), never 0 pages; Previous is
\* disabled iff currentPage = 1 and Next iff currentPage >= totalPages.
C5_Controls ==
    Rendered =>
      /\ pageNav.pageInfo = <<currentPage, TotalPages>>
      /\ pageNav.pageInfo[2] # 0
      /\ pageNav.prevDisabled <=> (currentPage = 1)
      /\ pageNav.nextDisabled <=> (currentPage >= TotalPages)

\* The controls of a middle page: both buttons enabled, "Page 2 of 3".
C5_Witness ==
    /\ Rendered
    /\ pageNav.pageInfo = <<2, 3>>
    /\ ~pageNav.prevDisabled
    /\ ~pageNav.nextDisabled
    /\ lastEvent.type = "prev"

\* The rows of page p, by the paging of the source.
PageRows(p) == getPaginatedData(currentData, p, itemsPerPage)

\* C6: the rendered body is exactly the rows of currentData from position
\* (currentPage-1)*itemsPerPage up to min(currentPage*itemsPerPage, len),
\* in order; every page before the last has itemsPerPage rows, the last
\* one len - (totalPages-1)*itemsPerPage >= 1 rows, every record is on
\* exactly one page, and 23 records at 10 per page give 3 pages with 3
\* rows on page 3.
C6_PageContents ==
    Rendered =>
      LET len == Len(currentData)
          first == (currentPage - 1) * itemsPerPage
          last == IF currentPage * itemsPerPage < len
                  THEN currentPage * itemsPerPage ELSE len
      IN /\ Len(tbody) = last - first
         /\ \A k \in 1..Len(tbody) : tbody[k] = currentData[first + k].id
         /\ currentPage < TotalPages => Len(tbody) = itemsPerPage
         /\ currentPage = TotalPages =>
              /\ Len(tbody) = len - (TotalPages - 1) * itemsPerPage
              /\ Len(tbody) >= 1
         /\ \A i \in 1..len :
              Cardinality({ p \in 1..TotalPages :
                              \E k \in 1..Len(PageRows(p)) :
                                  PageRows(p)[k].id = currentData[i].id }) = 1
         /\ (len = 23 /\ itemsPerPage = 10) =>
              /\ TotalPages = 3
              /\ currentPage = 3 => Len(tbody) = 3

\* Page 3 of 23 records at 10 per page is rendered, with 3 rows.
C6_Witness ==
    /\ Rendered
    /\ Len(currentData) = 23
    /\ itemsPerPage = 10
    /\ currentPage = 3
    /\ Len(tbody) = 3
    /\ lastEvent.type = "next"

----------------------------------------------------------------------------
(* Properties of decorate *)

IsError(child) == child \in {"error-config", "error-load", "error-format"}

\* An error message is among the children of the block.
ErrorShown == \E i \in 1..Len(block) : IsError(block[i])

\* C11: for every parsed payload that is neither an array nor an object
\* whose data member is an array (null, false, 0 and "" included), the
\* block shows the data-format error and no table.
C11_FormatError ==
    (pc = "done" /\ payload.kind \in {"null", "false", "zero", "emptyString",
                                      "object", "string"})
      => block = <<"error-format">>

\* C12: a missing source URL aborts before any fetch, at most one fetch
\* is issued, and once an error is shown it is the only child of the
\* block, no header, row, pagination control or handler exists, and no
\* step of the block is possible any more.
C12_TerminalErrors ==
    /\ fetches <= 1
    /\ block = <<"error-config">> => fetches = 0
    /\ ErrorShown =>
         /\ Len(block) = 1
         /\ pc = "done"
         /\ ~HandlersAttached
         /\ displayColumns = <<>> /\ indicators = <<>>
         /\ tbody = <<>> /\ pageNav = NoPageNav
         /\ ~ENABLED Next

\* The fetch failed and the load error is shown.
C12_Witness ==
    /\ block = <<"error-load">>
    /\ payload.kind = "failed"
    /\ fetches = 1

\* C20: while the fetch is pending the block shows the loading state and
\* no handler is attached, the only step possible is the settling of the
\* fetch, and that step removes the loading state and ends in exactly one
\* of the load error, the data-format error or a rendered table.
C20_LoadingUntilSettled ==
    [][ /\ pc' = "fetching" => (block' = <<"loading">> /\ ~HandlersAttached')
        /\ pc = "fetching" =>
             /\ lastEvent'.type = "load"
             /\ pc' = "done"
             /\ block' \in { <<"error-load">>, <<"error-format">>, <<"table-empty">>,
                             <<"pagination-controls", "table">> }
      ]_vars

\* The fetch settled with an object that wraps an array, and the table
\* was rendered.
C20_Witness ==
    /\ lastEvent.type = "load"
    /\ payload.kind = "wrapped"
    /\ block = <<"pagination-controls", "table">>
    /\ fetches = 1

\* The fetched array after the past-event filter, in fetch order.
PostFilterData ==
    IF config.filterPastEvents
    THEN filterPastEvents(payload.rows, ColEndDate, ColEndTime,
                          [i \in 1..Len(payload.rows) |-> Now])
    ELSE payload.rows

\* The name of the column contains "event start date", whatever the case
\* of its letters.
NamesStartDate(column) ==
    \E i \in 0..(Len(column) - 16) :
      toLowerCase(SubSeq(column, i + 1, i + 16)) = toLowerCase(ColStartDate)

\* The positions of the display columns that name the event start date.
StartDatePositions == {i \in 1..Len(displayColumns) : NamesStartDate(displayColumns[i])}

\* The serial number of the start date of record i of currentData, read
\* from the column the table is sorted by.
StartSerial(i) == parseFloat(Get(currentData[i], sortColumn)).v

\* C13: right after the first render, if a display column names the event
\* start date (whatever the case of its letters), sortColumn is the first
\* such column, sortDirection is 'asc' and currentData is the post-filter
\* data sorted ascending by it (smaller serials first); otherwise
\* sortColumn is null and currentData is the post-filter data in fetch
\* order.
C13_DefaultSort ==
    (Rendered /\ lastEvent.type = "load") =>
      IF StartDatePositions # {}
      THEN /\ sortColumn = displayColumns[CHOOSE i \in StartDatePositions :
                                            \A j \in StartDatePositions : i <= j]
           /\ sortDirection = "asc"
           /\ \E D \in {PostFilterData} : currentData = sortData(D, sortColumn, "asc")
           /\ \A i \in 1..(Len(currentData) - 1) : StartSerial(i) <= StartSerial(i + 1)
      ELSE /\ sortColumn = Null
           /\ currentData = PostFilterData

\* The first render sorted by a start-date column whose name is written in
\* capitals, and the sort changed the order of the records.
C13_Witness ==
    /\ Rendered
    /\ lastEvent.type = "load"
    /\ sortColumn = ColStartDateUpper
    /\ currentData # originalData
    /\ Len(currentData) >= 10

\* The positions of the headers that show an active indicator.
ActiveHeaders == {i \in 1..Len(indicators) : indicators[i] # "neutral"}

\* C15: after a header click exactly one header shows an active
\* indicator, it is the header of sortColumn and it shows the up arrow
\* iff sortDirection is 'asc', every other header shows the neutral
\* indicator; Previous, Next and items-per-page changes leave the
\* indicators unchanged.
C15_OneActiveIndicator ==
    [][ /\ lastEvent'.type = "header" =>
             /\ Cardinality({i \in 1..Len(indicators') : indicators'[i] # "neutral"}) = 1
             /\ \A i \in 1..Len(indicators') :
                  indicators'[i] # "neutral" =>
                    /\ displayColumns'[i] = sortColumn'
                    /\ indicators'[i] = (IF sortDirection' = "asc" THEN "up" ELSE "down")
        /\ lastEvent'.type \in {"prev", "next", "items"} => indicators' = indicators
      ]_vars

\* C16: on a rendered table currentData is the post-filter data sorted by
\* (sortColumn, sortDirection), or the post-filter data itself while
\* sortColumn is null: every sort starts from the original array, and the
\* records of currentData are the post-filter records.
C16_SortOfOriginal ==
    Rendered =>
      \E D \in {PostFilterData} :
        /\ originalData = D
        /\ currentData = (IF sortColumn = Null THEN D
                          ELSE sortData(D, sortColumn, sortDirection))
        /\ {currentData[i] : i \in 1..Len(currentData)} = {D[i] : i \in 1..Len(D)}
        /\ Len(currentData) = Len(D)

\* A second header click sorted by another column than the first, and the
\* order differs from the fetch order.
C16_Witness ==
    /\ Rendered
    /\ lastEvent.type = "header"
    /\ sortColumn = ColName
    /\ sortDirection = "desc"
    /\ currentData # originalData
    /\ Len(currentData) >= 10

\* C18: the values the type inference samples for a sort are normalized
\* display values (a serial date already formatted as MM/DD/YYYY), never
\* raw serial numbers.
C18_NormalizedSamples ==
    (Rendered /\ inference.dataType # "none") =>
      \A i \in 1..Len(inference.sampleValues) :
        /\ ~isExcelSerialDate(inference.sampleValues[i])
        /\ inference.sampleValues[i] = formatCellValue(inference.sampleValues[i])

----------------------------------------------------------------------------
(* Properties of the sorter *)

\* The cell of row r in the sort column is empty (or missing).
IsEmptyCell(r) == OrEmpty(Get(r, SortCol)) = <<>>

NonEmptyRows(rows) == SelectSeq(rows, LAMBDA r : ~IsEmptyCell(r))

\* Under "asc" no empty row precedes a non-empty one; under "desc" no
\* non-empty row precedes an empty one.
EmptiesPlaced(rows, d) ==
    \A i, j \in 1..Len(rows) :
        i < j => IF d = "asc"
                 THEN IsEmptyCell(rows[i]) => IsEmptyCell(rows[j])
                 ELSE IsEmptyCell(rows[j]) => IsEmptyCell(rows[i])

\* Every non-empty cell of the column has the form of the given type.
Conforms(rows, type) ==
    \A i \in 1..Len(rows) :
        LET v == OrEmpty(Get(rows[i], SortCol))
        IN v # <<>> =>
             CASE type = "date" -> ~DateParse(v).nan
               [] type = "number" -> ~parseFloat(v).nan
               [] OTHER -> TRUE

\* The non-empty cells of the column have pairwise different numbers.
DistinctNumbers(rows) ==
    \A i, j \in 1..Len(rows) :
        (i # j /\ ~IsEmptyCell(rows[i]) /\ ~IsEmptyCell(rows[j]))
          => parseFloat(Get(rows[i], SortCol)) # parseFloat(Get(rows[j], SortCol))

\* The type inferred for the sort column of a record sequence.
TypeOf(rows) == getColumnDataType(rows, SortCol)

\* C7 as stated: sorting is idempotent, sort(sort(data,c,d),c,d) equals
\* sort(data,c,d) for every record sequence, the second sort inferring the
\* column type from the sequence it is given.
C7_Idempotent ==
    \A d \in Directions : sRe[d].done => sRe[d].rows = sOut[d].rows

\* C7 amended: sorting is idempotent whenever the sorted sequence is
\* inferred to have the same column type as the data and every non-empty
\* value of the column is valid for that type.
C7_IdempotentSameType ==
    \A d \in Directions :
        ( /\ sRe[d].done
          /\ TypeOf(sOut[d].rows) = TypeOf(sIn)
          /\ Conforms(sIn, TypeOf(sIn)) )
        => sRe[d].rows = sOut[d].rows

\* A number column with equal values and an empty cell, which the first
\* sort had to reorder, has been sorted twice.
C7_Witness ==
    /\ sRe["asc"].done
    /\ TypeOf(sIn) = "number"
    /\ TypeOf(sOut["asc"].rows) = "number"
    /\ Conforms(sIn, "number")
    /\ ~DistinctNumbers(sIn)
    /\ \E i \in 1..Len(sIn) : IsEmptyCell(sIn[i])
    /\ sOut["asc"].rows # sIn

\* C8 as stated: for every column inferred as number, the non-empty rows
\* under "desc" are in exactly the reverse of their order under "asc", and
\* the empty rows are last under "asc" and first under "desc".
C8_DescReversesAsc ==
    (sOut["asc"].done /\ sOut["desc"].done /\ TypeOf(sIn) = "number")
    => /\ NonEmptyRows(sOut["desc"].rows) = Reverse(NonEmptyRows(sOut["asc"].rows))
       /\ EmptiesPlaced(sOut["asc"].rows, "asc")
       /\ EmptiesPlaced(sOut["desc"].rows, "desc")

\* C8 amended: for every column inferred as number the empty rows are last
\* under "asc" and first under "desc", and when all non-empty values parse
\* as numbers and are pairwise different, the non-empty rows under "desc"
\* are in exactly the reverse of their order under "asc".
C8_DescReversesAscDistinct ==
    (sOut["asc"].done /\ sOut["desc"].done /\ TypeOf(sIn) = "number")
    => /\ (Conforms(sIn, "number") /\ DistinctNumbers(sIn))
            => NonEmptyRows(sOut["desc"].rows)
                 = Reverse(NonEmptyRows(sOut["asc"].rows))
       /\ EmptiesPlaced(sOut["asc"].rows, "asc")
       /\ EmptiesPlaced(sOut["desc"].rows, "desc")

\* A number column of three different numbers and an empty cell, not in
\* ascending order, has been sorted in both directions.
C8_Witness ==
    /\ sOut["asc"].done /\ sOut["desc"].done
    /\ TypeOf(sIn) = "number"
    /\ Conforms(sIn, "number") /\ DistinctNumbers(sIn)
    /\ Len(NonEmptyRows(sIn)) = 3
    /\ Len(sIn) = 4
    /\ sOut["asc"].rows # sIn

\* C9: for every inferred type, the sorted sequence has every row with an
\* empty cell in the sort column after all rows with a non-empty cell under
\* "asc", and before all of them under "desc".
C9_EmptyRule ==
    \A d \in Directions :
        /\ sOut[d].done => EmptiesPlaced(sOut[d].rows, d)
        /\ sRe[d].done => EmptiesPlaced(sRe[d].rows, d)

\* A date column of four records that starts with an empty cell has been
\* sorted in both directions, and twice ascending.
C9_Witness ==
    /\ sOut["asc"].done /\ sOut["desc"].done /\ sRe["asc"].done
    /\ TypeOf(sIn) = "date"
    /\ Len(sIn) = 4
    /\ IsEmptyCell(sIn[1])
    /\ ~IsEmptyCell(sIn[4])
    /\ sOut["desc"].rows # sIn

\* The positions of the records whose cell is neither missing nor empty.
NonEmptyPositions(rows) ==
    {i \in 1..Len(rows) : Get(rows[i], SortCol) # Undefined /\ Get(rows[i], SortCol) # <<>>}

\* The positions of the first three of them.
FirstThree(rows) ==
    {i \in NonEmptyPositions(rows) :
       Cardinality({j \in NonEmptyPositions(rows) : j < i}) < 3}

\* The type the rule gives for the first three non-empty cells.
RuleType(rows) ==
    LET first == FirstThree(rows)
    IN IF first = {} THEN "text"
       ELSE IF \A i \in first : datePattern(Get(rows[i], SortCol)) THEN "date"
       ELSE IF \A i \in first : ~parseFloat(Get(rows[i], SortCol)).nan THEN "number"
       ELSE "text"

\* C19: the type inferred for a column is 'text' when the column has no
\* non-empty value, else 'date' when the first three non-empty values all
\* match M/D/YYYY, else 'number' when they all parse as numbers, else
\* 'text'; the values after the third non-empty one never change it.
C19_FirstThreeSamples ==
    \A d \in Directions :
      /\ sOut[d].done =>
           /\ sOut[d].dataType = RuleType(sIn)
           /\ \A k \in 1..Len(sIn) :
                Cardinality({i \in NonEmptyPositions(sIn) : i <= k}) >= 3
                  => getColumnDataType(SubSeq(sIn, 1, k), SortCol) = sOut[d].dataType
      /\ sRe[d].done => sRe[d].dataType = RuleType(sOut[d].rows)

\* Three dates followed by a number: the column was inferred as 'date'.
C19_Witness ==
    /\ sOut["asc"].done
    /\ Len(sIn) = 4
    /\ \A i \in 1..3 : datePattern(Get(sIn[i], SortCol))
    /\ Get(sIn[4], SortCol) = <<"9">>
    /\ sOut["asc"].dataType = "date"

----------------------------------------------------------------------------
(* The filter under test: filterPastEvents applied to every sequence of at *)
(* most MaxFilterLen records, with the default column names of decorate,   *)
(* under every non-decreasing sequence of clock readings.                  *)

\* Date cells: missing, empty, text, a number below 1, day 3 (1900-01-02),
\* day 3 and a half, and the first number that is too large.
FilterDateCells ==
    { Undefined, <<>>, <<"b">>, <<"0", ".", "5">>, <<"3">>, <<"3", ".", "5">>,
      <<"1", "0", "0", "0", "0", "0">> }

\* Time cells: missing, 06:00, and a text that is not HH:MM.
FilterTimeCells == { Undefined, <<"0", "6", ":", "0", "0">>, <<"6", ":", "0">> }

\* Readings of the clock: around 1900-01-02 06:00.
Nows == { 17999, 18000, 18001 }

MkEvent(i, date, time) ==
    [id |-> i,
     kv |-> (IF date = Undefined THEN <<>> ELSE << <<ColEndDate, date>> >>)
              \o (IF time = Undefined THEN <<>> ELSE << <<ColEndTime, time>> >>)]

SortIdle ==
    /\ sIn = <<>>
    /\ sOut = [d \in Directions |-> NotSorted]
    /\ sRe = [d \in Directions |-> NotSorted]

FilterInit ==
    /\ engine = "timsort"
    /\ SortIdle
    /\ RenderIdle
    /\ BlockIdle
    /\ \E n \in 0..MaxFilterLen :
         \E dates \in [1..n -> FilterDateCells] :
           \E times \in [1..n -> FilterTimeCells] :
             \E clock \in [1..n -> Nows] :
               /\ \A i \in 1..n : \A j \in 1..n : i <= j => clock[i] <= clock[j]
               /\ fIn = [i \in 1..n |-> MkEvent(i, dates[i], times[i])]
               /\ fClock = clock
    /\ fOut = NotRun

\* filterPastEvents(data, dateColumn, timeColumn) on the drawn input
Filter ==
    /\ ~fOut.done
    /\ fOut' = Ran(filterPastEvents(fIn, ColEndDate, ColEndTime, fClock))
    /\ UNCHANGED <<engine, renderVars, sortVars, fIn, fClock, blockVars>>

FilterNext == Filter

FilterSpec == FilterInit /\ [][FilterNext]_vars

\* Row i has a date cell that is a valid serial date.
HasSerialDate(row) ==
    LET v == Get(row, ColEndDate)
    IN v # Undefined /\ isExcelSerialDate(v)

\* The event datetime of row i.
EventTime(row) ==
    createDateTimeFromExcel(Get(row, ColEndDate), Get(row, ColEndTime))

\* C10: filterPastEvents keeps every record whose date cell is missing or
\* not a valid serial date, drops a record with a valid serial date iff
\* its event datetime is strictly earlier than now, and keeps the kept
\* records in their relative order.
C10_FilterPast ==
    fOut.done =>
      /\ \A i \in 1..Len(fIn) :
           (\E k \in 1..Len(fOut.rows) : fOut.rows[k] = fIn[i])
             <=> (~HasSerialDate(fIn[i]) \/ ~(EventTime(fIn[i]) < fClock[i]))
      /\ \A k \in 1..Len(fOut.rows) : fOut.rows[k] = fIn[fOut.rows[k].id]
      /\ \A k, l \in 1..Len(fOut.rows) : k < l => fOut.rows[k].id < fOut.rows[l].id

\* Two records with valid serial dates were filtered: one earlier than
\* now, which was dropped, and one exactly at now, which was kept.
C10_Witness ==
    /\ fOut.done
    /\ Len(fIn) = 2
    /\ HasSerialDate(fIn[1]) /\ EventTime(fIn[1]) < fClock[1]
    /\ HasSerialDate(fIn[2]) /\ EventTime(fIn[2]) = fClock[2]
    /\ fOut.rows = <<fIn[2]>>

\* The datetime the rule gives: 00:00 of the calendar day of the whole
\* part of the serial number, moved to HH:MM when the time cell has that
\* form.
RuleEventTime(row) ==
    LET serial == parseFloat(Get(row, ColEndDate)).v \div 100
        time == Get(row, ColEndTime)
        fields == IF time = Undefined THEN <<>> ELSE TimeFields(time)
    IN (serial - 2) * TicksPerDay
         + (IF fields # <<>>
            THEN fields[1] * TicksPerHour + fields[2] * TicksPerMinute
            ELSE 0)

\* C17: the datetime the filter uses for a record with a valid serial
\* date is the calendar day of floor(serial) at the HH:MM of its time
\* cell, at midnight when the time is missing or not of that form,
\* fractional serials included; the record is dropped iff that datetime
\* is before the reading of the clock.
C17_EventDatetime ==
    fOut.done =>
      \A i \in 1..Len(fIn) :
        HasSerialDate(fIn[i]) =>
          /\ EventTime(fIn[i]) = RuleEventTime(fIn[i])
          /\ Contains(fOut.rows, fIn[i]) <=> ~(RuleEventTime(fIn[i]) < fClock[i])

----------------------------------------------------------------------------
(* The rendering under test: the headers of createTable and the cells of   *)
(* renderTableBody for every configured column list of at most three names *)
(* and every sequence of at most MaxRenderRows records.                     *)

RenderColumnNames == {ColName, ColEndDate, ColEndTime}

\* Configured column lists: none, or one to three names.
RenderColumnLists ==
    {Null} \cup UNION { [1..n -> RenderColumnNames] : n \in 1..3 }

\* Date cells: empty, two serial dates (one with a fraction), a text.
RenderDateCells ==
    { <<>>, <<"4", "5", "0", "0", "0">>, <<"3", ".", "5">>, <<"b">> }

\* Time cells: missing, empty, blank, 06:00.
RenderTimeCells == { Undefined, <<>>, <<" ">>, <<"0", "6", ":", "0", "0">> }

MkRenderRow(i, date, time) ==
    [id |-> i,
     kv |-> << <<ColName, <<"a">>>>, <<ColEndDate, date>> >>
              \o (IF time = Undefined THEN <<>> ELSE << <<ColEndTime, time>> >>)]

RenderInit ==
    /\ engine = "timsort"
    /\ SortIdle
    /\ FilterIdle
    /\ BlockIdle
    /\ \E n \in 0..MaxRenderRows :
         \E dates \in [1..n -> RenderDateCells] :
           \E times \in [1..n -> RenderTimeCells] :
             \E columns \in RenderColumnLists :
               rIn = [columns |-> columns,
                      rows |-> [i \in 1..n |-> MkRenderRow(i, dates[i], times[i])]]
    /\ rOut = NoRender

\* createTable(data, columns): the headers and the first rendering of the
\* body (all records fit on the first page)
Render ==
    /\ ~rOut.done
    /\ IF Len(rIn.rows) = 0
       THEN rOut' = [done |-> TRUE, headers |-> <<>>, cells |-> <<>>]
       ELSE \E headers \in {DisplayColumns(rIn.rows, rIn.columns)} :
              rOut' = [done |-> TRUE,
                       headers |-> headers,
                       cells |-> [k \in 1..Len(rIn.rows) |->
                                    renderCells(rIn.rows[k], headers,
                                                Keys(rIn.rows[1]))]]
    /\ UNCHANGED <<engine, sortVars, filterVars, rIn, blockVars>>

RenderNext == Render

RenderSpec == RenderInit /\ [][RenderNext]_vars

\* The display set: the configured list, or the columns of the data.
DisplaySet == IF rIn.columns # Null THEN rIn.columns ELSE Keys(rIn.rows[1])

\* The name of column with its suffix "Time" replaced by "Date".
DateNameOf(column) ==
    ReplaceSuffix(column, <<"T", "i", "m", "e">>, <<"D", "a", "t", "e">>)

\* The name of column with its suffix "Date" replaced by "Time".
TimeNameOf(column) ==
    ReplaceSuffix(column, <<"D", "a", "t", "e">>, <<"T", "i", "m", "e">>)

\* A column of the display set is omitted iff its name ends in "Time" and
\* the paired "Date" name is in the display set; the others are rendered
\* in their order.
HeadersAsClaimed ==
    rOut.headers =
      SelectSeq(DisplaySet,
                LAMBDA column : ~(/\ EndsWith(column, <<"T", "i", "m", "e">>)
                                  /\ Contains(DisplaySet, DateNameOf(column))))

\* The rendered header c is a "Date" column whose "Time" column is among
\* the columns of the data.
Paired(c) ==
    /\ EndsWith(rOut.headers[c], <<"D", "a", "t", "e">>)
    /\ Contains(Keys(rIn.rows[1]), TimeNameOf(rOut.headers[c]))

\* The formatted date of a date cell: MM/DD/YYYY for a serial date, the
\* cell itself otherwise.
FormattedDate(value) ==
    IF value # <<>> /\ isExcelSerialDate(value) THEN formatExcelDate(value) ELSE value

NotBlank(value) == \E i \in 1..Len(value) : value[i] # " "

====
